---- MODULE Spec2Model ----
(***************************************************************************)
(* A model of pmonkey/evaluator.py, the tree-walking evaluator of the      *)
(* Monkey language.  Every function of the evaluator is an operator of the *)
(* same name.  The evaluator is a recursive call tree: the operators       *)
(* thread a record m = [heap, log, oid] through the recursion, where heap  *)
(* is the store of Environment objects, oid the allocation counter that    *)
(* gives objects their identity, and log the history of what the evaluator *)
(* did (which node it entered, what it returned, which binding it made).   *)
(* A Python exception is the pseudo-value Raise(exc, at); nothing in the   *)
(* evaluator catches one, so every caller hands it on unchanged.           *)
(***************************************************************************)
EXTENDS Integers, Sequences, FiniteSets, TLC

VARIABLES program, pc, i, result, heap, log, oid, output,
          op, left, right, applied

vars == <<program, pc, i, result, heap, log, oid, output, op, left, right, applied>>

(* ------------------- what Python has besides values ------------------- *)
\* Every AST node is a record with the field kind (the node's class), every
\* result of the evaluator a record with the field type (what type() gives,
\* or the Python type of what has no such method).

\* a node that is absent (Python's None where a node is expected)
NoNode == [kind |-> "NoneType"]
\* what Python gives where the evaluator expects a value
None == [type |-> "NoneType"]

(* ------------------------------ bounds -------------------------------- *)

\* longest statement sequence built from the statement pool
MaxStmts == 2
\* integer operands of the infix operators range over -MaxInt..MaxInt
MaxInt == 2

(* ------------------- numbers: Python int and float -------------------- *)
\* Integer.value is a Python number.  "/" is Python's true division, whose
\* quotient need not be integral, so a number is a fraction <<num, den>> in
\* lowest terms with den > 0; an int n is <<n, 1>>.

Abs(n) == IF n < 0 THEN -n ELSE n

RECURSIVE Gcd(_, _)
Gcd(a, b) == IF b = 0 THEN a ELSE Gcd(b, a % b)

Norm(n, d) ==
    LET g == Gcd(Abs(n), Abs(d))
        s == IF d < 0 THEN -1 ELSE 1
    IN  <<s * (n \div g), s * (d \div g)>>

Num(n) == <<n, 1>>
NumAdd(a, b) == Norm(a[1] * b[2] + b[1] * a[2], a[2] * b[2])
NumSub(a, b) == Norm(a[1] * b[2] - b[1] * a[2], a[2] * b[2])
NumMul(a, b) == Norm(a[1] * b[1], a[2] * b[2])
NumDiv(a, b) == Norm(a[1] * b[2], a[2] * b[1])
NumNeg(a) == <<-a[1], a[2]>>
NumLt(a, b) == a[1] * b[2] < b[1] * a[2]
NumEq(a, b) == a = b

(* --------------------- pmonkey.objects: the values -------------------- *)

INTEGER_OBJ == "INTEGER"
BOOLEAN_OBJ == "BOOLEAN"
NULL_OBJ == "NULL"
RETURN_VALUE_OBJ == "RETURN_VALUE"
ERROR_OBJ == "ERROR"
FUNCTION_OBJ == "FUNCTION"

Integer(n) == [type |-> INTEGER_OBJ, value |-> Num(n)]
IntegerOf(q) == [type |-> INTEGER_OBJ, value |-> q]
Boolean(b) == [type |-> BOOLEAN_OBJ, value |-> b]
Null == [type |-> NULL_OBJ]
\* ReturnValue and Function objects are compared by identity: id is the
\* object's identity
ReturnValue(v, id) == [type |-> RETURN_VALUE_OBJ, value |-> v, id |-> id]
Error(message) == [type |-> ERROR_OBJ, message |-> message]
Function(params, body, env, id) ==
    [type |-> FUNCTION_OBJ, parameters |-> params, body |-> body, env |-> env, id |-> id]

\* the list eval_expressions returns
PyList(items) == [type |-> "list", items |-> items]
\* a name that was never assigned (the loop variable of a loop that never ran)
Unbound == [type |-> "unbound"]

\* an exception raised in function `at`, on its way up the call stack
Raise(exc, at) == [type |-> "raise", exc |-> exc, at |-> at]
IsRaise(v) == v.type = "raise"

\* whether v.type() can be called: None and a list have no such method
HasType(v) == v.type \notin {"NoneType", "list"}

\* Python's == between two objects of pmonkey.objects
ObjEq(a, b) == a = b

TRUE_ == Boolean(TRUE)
FALSE_ == Boolean(FALSE)
NULL == Null

(* ------------------ pmonkey.environment: Environment ------------------ *)
\* heap[e] is the Environment object with identity e: its bindings and its
\* parent (0 for none).

NoEnv == 0

Environment(outer) == [store |-> <<>>, outer |-> outer]

RECURSIVE Environment_get(_, _, _)
Environment_get(h, e, name) ==
    IF name \in DOMAIN h[e].store THEN h[e].store[name]
    ELSE IF h[e].outer # NoEnv THEN Environment_get(h, h[e].outer, name)
    ELSE None

Environment_set(h, e, name, val) ==
    [h EXCEPT ![e].store =
        [n \in (DOMAIN @) \cup {name} |-> IF n = name THEN val ELSE @[n]]]

(* ----------------------- the threaded record m ------------------------ *)

Ret(v, m) == [val |-> v, m |-> m]
Log(m, e) == [m EXCEPT !.log = Append(@, e)]

\* env.set(name, val), recorded in the history
env_set(m, e, name, val) ==
    Log([m EXCEPT !.heap = Environment_set(@, e, name, val)],
        [ev |-> "set", env |-> e, name |-> name, val |-> val])

(* --------------------------- pure helpers ----------------------------- *)

native_boolean_to_boolean_object(boolean_value) ==
    IF boolean_value THEN TRUE_ ELSE FALSE_

is_error(node) == node.type = ERROR_OBJ

is_truthy(value) ==
    IF ObjEq(value, NULL) THEN FALSE
    ELSE IF ObjEq(value, TRUE_) THEN TRUE
    ELSE IF ObjEq(value, FALSE_) THEN FALSE
    ELSE TRUE

eval_bang_operator_expression(r) ==
    IF ObjEq(r, TRUE_) THEN FALSE_
    ELSE IF ObjEq(r, FALSE_) THEN TRUE_
    ELSE IF ObjEq(r, NULL) THEN TRUE_
    ELSE FALSE_

eval_minus_prefix_operator_expression(r) ==
    IF r.type # INTEGER_OBJ
    THEN Error("unknown operator: -" \o r.type)
    ELSE IntegerOf(NumNeg(r.value))

eval_prefix_expression(o, r) ==
    IF o = "!" THEN eval_bang_operator_expression(r)
    ELSE IF o = "-" THEN eval_minus_prefix_operator_expression(r)
    ELSE Error("unknown operator: " \o o \o r.type)

eval_integer_infix_expression(o, l, r) ==
    IF o = "+" THEN IntegerOf(NumAdd(l.value, r.value))
    ELSE IF o = "-" THEN IntegerOf(NumSub(l.value, r.value))
    ELSE IF o = "*" THEN IntegerOf(NumMul(l.value, r.value))
    ELSE IF o = "/" THEN
        IF r.value[1] = 0
        THEN Raise("ZeroDivisionError", "eval_integer_infix_expression")
        ELSE IntegerOf(NumDiv(l.value, r.value))
    ELSE IF o = "<" THEN native_boolean_to_boolean_object(NumLt(l.value, r.value))
    ELSE IF o = ">" THEN native_boolean_to_boolean_object(NumLt(r.value, l.value))
    ELSE IF o = "==" THEN native_boolean_to_boolean_object(NumEq(l.value, r.value))
    ELSE IF o = "!=" THEN native_boolean_to_boolean_object(~NumEq(l.value, r.value))
    ELSE Error("unknown operator: " \o l.type \o " " \o o \o " " \o r.type)

\* eval_infix_expression without its check of the operand types
eval_infix_expression_unchecked(o, l, r) ==
    IF l.type = INTEGER_OBJ /\ r.type = INTEGER_OBJ
    THEN eval_integer_infix_expression(o, l, r)
    ELSE IF o = "==" THEN native_boolean_to_boolean_object(ObjEq(l, r))
    ELSE IF o = "!=" THEN native_boolean_to_boolean_object(~ObjEq(l, r))
    ELSE Error("unknown operator: " \o l.type \o " " \o o \o " " \o r.type)

eval_infix_expression(o, l, r) ==
    IF l.type = INTEGER_OBJ /\ r.type = INTEGER_OBJ
    THEN eval_integer_infix_expression(o, l, r)
    ELSE IF o = "==" THEN native_boolean_to_boolean_object(ObjEq(l, r))
    ELSE IF o = "!=" THEN native_boolean_to_boolean_object(~ObjEq(l, r))
    ELSE IF l.type # r.type
    THEN Error("type mismatch: " \o l.type \o " " \o o \o " " \o r.type)
    ELSE Error("unknown operator: " \o l.type \o " " \o o \o " " \o r.type)

(* ------------------------ pmonkey.ast: the nodes ---------------------- *)

IntegerLiteral(n) == [kind |-> "IntegerLiteral", value |-> n]
BooleanLiteral(b) == [kind |-> "BooleanLiteral", value |-> b]
Identifier(name) == [kind |-> "Identifier", value |-> name]
PrefixExpression(o, r) == [kind |-> "PrefixExpression", operator |-> o, right |-> r]
InfixExpression(l, o, r) ==
    [kind |-> "InfixExpression", operator |-> o, left |-> l, right |-> r]
BlockStatement(stmts) == [kind |-> "BlockStatement", statements |-> stmts]
IfExpression(c, cons, alt) ==
    [kind |-> "IfExpression", condition |-> c, consequence |-> cons, alternative |-> alt]
ReturnStatement(e) == [kind |-> "ReturnStatement", return_value |-> e]
LetStatement(name, e) == [kind |-> "LetStatement", name |-> Identifier(name), value |-> e]
ExpressionStatement(e) == [kind |-> "ExpressionStatement", expression |-> e]
FunctionLiteral(params, body) ==
    [kind |-> "FunctionLiteral", parameters |-> params, body |-> body]
CallExpression(f, args) == [kind |-> "CallExpression", function |-> f, arguments |-> args]

(* --------------------------- the evaluator ---------------------------- *)

RECURSIVE eval(_, _, _, _)
RECURSIVE eval_node(_, _, _)
RECURSIVE eval_block_loop(_, _, _, _, _)
RECURSIVE eval_if_expression(_, _, _)
RECURSIVE eval_expressions_loop(_, _, _, _, _)
RECURSIVE apply_function(_, _, _)

eval_identifier(node, env, m) ==
    LET val == Environment_get(m.heap, env, node.value)
    IN  IF val = None
        THEN Ret(Error("identifier not found: " \o node.value), m)
        ELSE Ret(val, m)

\* the loop of eval_block_statement from its k-th statement on; res is the
\* local variable `result`
eval_block_loop(statements, k, env, m, res) ==
    IF k > Len(statements)
    THEN IF res = Unbound
         THEN Ret(Raise("UnboundLocalError", "eval_block_statement"), m)
         ELSE Ret(res, m)
    ELSE LET r == eval(statements[k], env, m, "eval_block_statement")
         IN  IF IsRaise(r.val) THEN r
             ELSE IF ~HasType(r.val)
             THEN Ret(Raise("AttributeError", "eval_block_statement"), r.m)
             ELSE IF r.val.type = RETURN_VALUE_OBJ \/ r.val.type = ERROR_OBJ
             THEN r
             ELSE eval_block_loop(statements, k + 1, env, r.m, r.val)

eval_block_statement(statements, env, m) ==
    eval_block_loop(statements, 1, env, m, Unbound)

eval_if_expression(node, env, m) ==
    LET c == eval(node.condition, env, m, "eval_if_expression")
    IN  IF IsRaise(c.val) THEN c
        ELSE IF ~HasType(c.val) THEN Ret(Raise("AttributeError", "is_error"), c.m)
        ELSE IF is_error(c.val) THEN c
        ELSE IF is_truthy(c.val)
        THEN eval(node.consequence, env, c.m, "eval_if_expression")
        ELSE IF node.alternative # NoNode
        THEN eval(node.alternative, env, c.m, "eval_if_expression")
        ELSE Ret(NULL, c.m)

\* the loop of eval_expressions from its k-th expression on; the result is
\* the Python list the function returns
eval_expressions_loop(exps, k, env, m, values) ==
    IF k > Len(exps) THEN Ret(PyList(values), m)
    ELSE LET r == eval(exps[k], env, m, "eval_expressions")
         IN  IF IsRaise(r.val) THEN r
             ELSE IF ~HasType(r.val) THEN Ret(Raise("AttributeError", "is_error"), r.m)
             ELSE IF is_error(r.val) THEN Ret(PyList(<<r.val>>), r.m)
             ELSE eval_expressions_loop(exps, k + 1, env, r.m, Append(values, r.val))

eval_expressions(exps, env, m) == eval_expressions_loop(exps, 1, env, m, <<>>)

\* the loop of extend_function_environment from its k-th parameter on
RECURSIVE extend_loop(_, _, _, _, _)
extend_loop(function, args, k, e, m) ==
    IF k > Len(function.parameters) THEN Ret([type |-> "Environment", id |-> e], m)
    ELSE IF k > Len(args)
    THEN Ret(Raise("IndexError", "extend_function_environment"), m)
    ELSE extend_loop(function, args, k + 1, e,
                     env_set(m, e, function.parameters[k].value, args[k]))

\* extend_function_environment making Environment() with no parent
extend_function_environment_rootless(function, args, m) ==
    IF function.type # FUNCTION_OBJ
    THEN Ret(Raise("AttributeError", "extend_function_environment"), m)
    ELSE extend_loop(function, args, 1, Len(m.heap) + 1,
                     [m EXCEPT !.heap = Append(@, Environment(NoEnv))])

\* extend_function_environment binding the parameters in function.env itself
extend_function_environment_in_place(function, args, m) ==
    IF function.type # FUNCTION_OBJ
    THEN Ret(Raise("AttributeError", "extend_function_environment"), m)
    ELSE extend_loop(function, args, 1, function.env, m)

extend_function_environment(function, args, m) ==
    IF function.type # FUNCTION_OBJ
    THEN Ret(Raise("AttributeError", "extend_function_environment"), m)
    ELSE extend_loop(function, args, 1, Len(m.heap) + 1,
                     [m EXCEPT !.heap = Append(@, Environment(function.env))])

apply_function(function, args, m) ==
    LET fresh == Len(m.heap) + 1
        m0 == Log(m, [ev |-> "apply", fn |-> function, args |-> args, env |-> fresh])
        x == extend_function_environment(function, args, m0)
    IN  IF IsRaise(x.val) THEN x
        ELSE LET r == eval(function.body, x.val.id, x.m, "apply_function")
                 done(v) == Ret(v, Log(r.m, [ev |-> "applyret", fn |-> function,
                                             args |-> args, env |-> x.val.id, val |-> v,
                                             before |-> m.heap, after |-> r.m.heap]))
             IN  IF IsRaise(r.val) THEN r
                 ELSE IF ~HasType(r.val) THEN Ret(Raise("AttributeError", "is_error"), r.m)
                 ELSE IF is_error(r.val) THEN done(r.val)
                 ELSE IF r.val.type = RETURN_VALUE_OBJ THEN done(r.val.value)
                 ELSE done(r.val)

\* the branches of eval, by the type of the node
eval_node(node, env, m) ==
    CASE node.kind = "ExpressionStatement" ->
            eval(node.expression, env, m, "ExpressionStatement")
      [] node.kind = "IntegerLiteral" -> Ret(Integer(node.value), m)
      [] node.kind = "BooleanLiteral" ->
            Ret(native_boolean_to_boolean_object(node.value), m)
      [] node.kind = "PrefixExpression" ->
            LET r == eval(node.right, env, m, "PrefixExpression")
            IN  IF IsRaise(r.val) THEN r
                ELSE IF ~HasType(r.val) THEN Ret(Raise("AttributeError", "is_error"), r.m)
                ELSE IF is_error(r.val) THEN r
                ELSE Ret(eval_prefix_expression(node.operator, r.val), r.m)
      [] node.kind = "InfixExpression" ->
            LET l == eval(node.left, env, m, "InfixExpression")
            IN  IF IsRaise(l.val) THEN l
                ELSE IF ~HasType(l.val) THEN Ret(Raise("AttributeError", "is_error"), l.m)
                ELSE IF is_error(l.val) THEN l
                ELSE LET r == eval(node.right, env, l.m, "InfixExpression")
                     IN  IF IsRaise(r.val) THEN r
                         ELSE IF ~HasType(r.val)
                         THEN Ret(Raise("AttributeError", "is_error"), r.m)
                         ELSE IF is_error(r.val) THEN r
                         ELSE Ret(eval_infix_expression(node.operator, l.val, r.val), r.m)
      [] node.kind = "BlockStatement" -> eval_block_statement(node.statements, env, m)
      [] node.kind = "IfExpression" -> eval_if_expression(node, env, m)
      [] node.kind = "ReturnStatement" ->
            LET v == eval(node.return_value, env, m, "ReturnStatement")
            IN  IF IsRaise(v.val) THEN v
                ELSE IF ~HasType(v.val) THEN Ret(Raise("AttributeError", "is_error"), v.m)
                ELSE IF is_error(v.val) THEN v
                ELSE Ret(ReturnValue(v.val, v.m.oid), [v.m EXCEPT !.oid = @ + 1])
      [] node.kind = "LetStatement" ->
            LET v == eval(node.value, env, m, "LetStatement")
            IN  IF IsRaise(v.val) THEN v
                ELSE IF ~HasType(v.val) THEN Ret(Raise("AttributeError", "is_error"), v.m)
                ELSE IF is_error(v.val) THEN v
                ELSE Ret(None, env_set(v.m, env, node.name.value, v.val))
      [] node.kind = "Identifier" -> eval_identifier(node, env, m)
      [] node.kind = "FunctionLiteral" ->
            Ret(Function(node.parameters, node.body, env, m.oid), [m EXCEPT !.oid = @ + 1])
      [] node.kind = "CallExpression" ->
            LET f == eval(node.function, env, m, "CallExpression")
            IN  IF IsRaise(f.val) THEN f
                ELSE IF ~HasType(f.val) THEN Ret(Raise("AttributeError", "is_error"), f.m)
                ELSE IF is_error(f.val) THEN f
                ELSE LET a == eval_expressions(node.arguments, env, f.m)
                     IN  IF IsRaise(a.val) THEN a
                         ELSE IF Len(a.val.items) = 1 /\ is_error(a.val.items[1])
                         THEN a
                         ELSE apply_function(f.val, a.val.items, a.m)
      [] OTHER -> Ret(NULL, m)

\* eval(node, env), called from ctx (a function of the evaluator, or the
\* branch of eval for a node class); entering the node and returning from it
\* are recorded in the history
eval(node, env, m, ctx) ==
    LET r == eval_node(node, env,
                       Log(m, [ev |-> "enter", node |-> node, env |-> env, ctx |-> ctx]))
    IN  IF IsRaise(r.val) THEN r
        ELSE Ret(r.val, Log(r.m, [ev |-> "ret", node |-> node, env |-> env,
                                  ctx |-> ctx, val |-> r.val]))

(* ------------------- eval_program as a state machine ------------------- *)
\* eval(Program, env) is eval_program(node.statements, env): one step per
\* iteration of its loop.  i is the position in the statements, result the
\* local variable `result`, output what eval_program returned (or the
\* exception that left it).

\* the environment the caller hands to eval with the Program node
Global == 1

\* eval_program without its check for a ReturnValue
eval_program_check_no_return(res) ==
    IF res # None
    THEN IF ~HasType(res) THEN "raise"
         ELSE IF res.type = ERROR_OBJ THEN "error"
         ELSE "next"
    ELSE "next"

\* eval_program without its check for an Error
eval_program_check_no_error(res) ==
    IF res # None
    THEN IF ~HasType(res) THEN "raise"
         ELSE IF res.type = RETURN_VALUE_OBJ THEN "return"
         ELSE "next"
    ELSE "next"

\* what eval_program does with the result of one statement
eval_program_check(res) ==
    IF res # None
    THEN IF ~HasType(res) THEN "raise"
         ELSE IF res.type = RETURN_VALUE_OBJ THEN "return"
         ELSE IF res.type = ERROR_OBJ THEN "error"
         ELSE "next"
    ELSE "next"

\* the evaluation of the i-th statement from the current state
Step == eval(program[i], Global, [heap |-> heap, log |-> log, oid |-> oid], "eval_program")

Running == pc = "loop" /\ i <= Len(program)

Idle == UNCHANGED <<op, left, right, applied>>

\* an exception leaves eval (or result.type() fails) and so leaves eval_program
StatementRaises ==
    /\ Running
    /\ LET r == Step
       IN  /\ IsRaise(r.val) \/ eval_program_check(r.val) = "raise"
           /\ output' = IF IsRaise(r.val) THEN r.val
                        ELSE Raise("AttributeError", "eval_program")
           /\ pc' = "raised"
           /\ heap' = r.m.heap /\ log' = r.m.log /\ oid' = r.m.oid
    /\ UNCHANGED <<program, i, result>>
    /\ Idle

\* the statement gave a ReturnValue: eval_program returns the wrapped value
StatementReturns ==
    /\ Running
    /\ LET r == Step
       IN  /\ ~IsRaise(r.val) /\ eval_program_check(r.val) = "return"
           /\ output' = r.val.value
           /\ result' = r.val
           /\ pc' = "done"
           /\ heap' = r.m.heap /\ log' = r.m.log /\ oid' = r.m.oid
    /\ UNCHANGED <<program, i>>
    /\ Idle

\* the statement gave an Error: eval_program returns it
StatementFails ==
    /\ Running
    /\ LET r == Step
       IN  /\ ~IsRaise(r.val) /\ eval_program_check(r.val) = "error"
           /\ output' = r.val
           /\ result' = r.val
           /\ pc' = "done"
           /\ heap' = r.m.heap /\ log' = r.m.log /\ oid' = r.m.oid
    /\ UNCHANGED <<program, i>>
    /\ Idle

\* anything else: on to the next statement
StatementCompletes ==
    /\ Running
    /\ LET r == Step
       IN  /\ ~IsRaise(r.val) /\ eval_program_check(r.val) = "next"
           /\ result' = r.val
           /\ i' = i + 1
           /\ heap' = r.m.heap /\ log' = r.m.log /\ oid' = r.m.oid
    /\ UNCHANGED <<program, pc, output>>
    /\ Idle

\* the loop is over: return result
ProgramEnds ==
    /\ pc = "loop" /\ i > Len(program)
    /\ IF result = Unbound
       THEN pc' = "raised" /\ output' = Raise("UnboundLocalError", "eval_program")
       ELSE pc' = "done" /\ output' = result
    /\ UNCHANGED <<program, i, result, heap, log, oid>>
    /\ Idle

(* ----------------------------- the programs ---------------------------- *)

Lit(n) == IntegerLiteral(n)
Bool(b) == BooleanLiteral(b)
Id(name) == Identifier(name)
ES(e) == ExpressionStatement(e)
Let(name, e) == LetStatement(name, e)
Return(e) == ReturnStatement(e)
Block(stmts) == BlockStatement(stmts)
If(c, cons) == IfExpression(c, Block(cons), NoNode)
IfElse(c, cons, alt) == IfExpression(c, Block(cons), Block(alt))
Fn(params, body) == FunctionLiteral(params, Block(body))
Call(f, args) == CallExpression(f, args)
Infix(l, o, r) == InfixExpression(l, o, r)
Prefix(o, r) == PrefixExpression(o, r)

\* if (true) { if (true) { return 3; } return 4; }
NestedReturn == ES(If(Bool(TRUE), <<ES(If(Bool(TRUE), <<Return(Lit(3))>>)), Return(Lit(4))>>))
\* if (true) { true + false; 6 }
ErrorInBlock == ES(If(Bool(TRUE), <<ES(Infix(Bool(TRUE), "+", Bool(FALSE))), ES(Lit(6))>>))
\* if (true) { let a = 8; a }
LetInBlock == ES(If(Bool(TRUE), <<Let("a", Lit(8)), ES(Id("a"))>>))
\* return if (true) { return 9; };
ReturnOfReturn == Return(If(Bool(TRUE), <<Return(Lit(9))>>))
\* fn(x) { x }
Identity == Fn(<<Id("x")>>, <<ES(Id("x"))>>)

\* the statements the generated programs are built from
StmtPool ==
    { Let("a", Lit(1)),
      ES(Id("a")),
      Return(Lit(2)),
      NestedReturn,
      ES(Infix(Lit(5), "+", Bool(TRUE))),
      ErrorInBlock,
      Let("f", Identity),
      ES(Call(Id("f"), <<Id("a")>>)),
      LetInBlock,
      ReturnOfReturn,
      ES(Infix(Lit(7), "/", Lit(0))),
      Let("a", Id("b")) }

Generated == UNION { [1..n -> StmtPool] : n \in 0..MaxStmts }

\* fn(x) { fn(y) { x + y } }
NewAdder == Fn(<<Id("x")>>, <<ES(Fn(<<Id("y")>>, <<ES(Infix(Id("x"), "+", Id("y")))>>))>>)
AddTwoOfX == ES(Call(Id("addTwo"), <<Id("x")>>))
AddThreeOfOne == ES(Call(Id("addThree"), <<Lit(1)>>))
ClosureProgram ==
    << Let("x", Lit(10)),
       Let("newAdder", NewAdder),
       Let("addTwo", Call(Id("newAdder"), <<Lit(2)>>)),
       Let("addThree", Call(Id("newAdder"), <<Lit(3)>>)),
       AddTwoOfX,
       AddThreeOfOne >>

\* let x = 10; let g = fn() { x }; let h = fn(x) { g() }; h(5)
CallOfH == ES(Call(Id("h"), <<Lit(5)>>))
LexicalProgram ==
    << Let("x", Lit(10)),
       Let("g", Fn(<<>>, <<ES(Id("x"))>>)),
       Let("h", Fn(<<Id("x")>>, <<ES(Call(Id("g"), <<>>))>>)),
       CallOfH >>

\* let x = 1; let f = fn(x) { x }; f(2); x
ShadowProgram ==
    << Let("x", Lit(1)), Let("f", Identity), ES(Call(Id("f"), <<Lit(2)>>)), ES(Id("x")) >>

\* let x = 1; let f = fn(y) { let x = y; x }; f(2); x
LetInBodyProgram ==
    << Let("x", Lit(1)),
       Let("f", Fn(<<Id("y")>>, <<Let("x", Id("y")), ES(Id("x"))>>)),
       ES(Call(Id("f"), <<Lit(2)>>)),
       ES(Id("x")) >>

\* fn(x, y) { x }(1); 2
TooFewProgram == << ES(Call(Fn(<<Id("x"), Id("y")>>, <<ES(Id("x"))>>), <<Lit(1)>>)), ES(Lit(2)) >>
\* fn(x) { x }(1, 2); 3
TooManyProgram == << ES(Call(Identity, <<Lit(1), Lit(2)>>)), ES(Lit(3)) >>
\* fn(x) { x }()
NoArgsProgram == << ES(Call(Identity, <<>>)) >>

\* let f = fn(x, y) { x }; f(1, foo, 2); 3
First == Fn(<<Id("x"), Id("y")>>, <<ES(Id("x"))>>)
ArgErrorProgram ==
    << Let("f", First), ES(Call(Id("f"), <<Lit(1), Id("foo"), Lit(2)>>)), ES(Lit(3)) >>
\* let f = fn(x, y) { x }; let a = f(foo, bar);
ArgErrorInLetProgram ==
    << Let("f", First), Let("a", Call(Id("f"), <<Id("foo"), Id("bar")>>)) >>

\* fn(x) { return x }(if (true) { return 1 }); 5
ReturnArgProgram ==
    << ES(Call(Fn(<<Id("x")>>, <<Return(Id("x"))>>), <<If(Bool(TRUE), <<Return(Lit(1))>>)>>)),
       ES(Lit(5)) >>
\* let a = if (true) { return 1 }; a; 5
ReturnLetProgram ==
    << Let("a", If(Bool(TRUE), <<Return(Lit(1))>>)), ES(Id("a")), ES(Lit(5)) >>
\* 1 + if (true) { return 2 }
ReturnOperandProgram == << ES(Infix(Lit(1), "+", If(Bool(TRUE), <<Return(Lit(2))>>))) >>

\* let f = fn(x) { if (x) { return 1; } 2 }; f(true); f(false); 3
EarlyReturn == Fn(<<Id("x")>>, <<ES(If(Id("x"), <<Return(Lit(1))>>)), ES(Lit(2))>>)
FunctionReturnProgram ==
    << Let("f", EarlyReturn), ES(Call(Id("f"), <<Bool(TRUE)>>)),
       ES(Call(Id("f"), <<Bool(FALSE)>>)), ES(Lit(3)) >>

\* 1; if (10 > 1) { if (10 > 1) { return 10; } return 1; }; let a = 2
NestedReturnProgram ==
    << ES(Lit(1)),
       ES(If(Infix(Lit(10), ">", Lit(1)),
             <<ES(If(Infix(Lit(10), ">", Lit(1)), <<Return(Lit(10))>>)), Return(Lit(1))>>)),
       Let("a", Lit(2)) >>

\* let a = 1; 5 + true; let b = 2
ErrorProgram == << Let("a", Lit(1)), ES(Infix(Lit(5), "+", Bool(TRUE))), Let("b", Lit(2)) >>
\* let f = fn(x) { x + true; 9 }; f(1); let b = 2
ErrorInFunctionProgram ==
    << Let("f", Fn(<<Id("x")>>, <<ES(Infix(Id("x"), "+", Bool(TRUE))), ES(Lit(9))>>)),
       ES(Call(Id("f"), <<Lit(1)>>)), Let("b", Lit(2)) >>

Scenarios ==
    { ClosureProgram, LexicalProgram, ShadowProgram, LetInBodyProgram,
      TooFewProgram, TooManyProgram, NoArgsProgram,
      ArgErrorProgram, ArgErrorInLetProgram,
      ReturnArgProgram, ReturnLetProgram, ReturnOperandProgram,
      FunctionReturnProgram, NestedReturnProgram, ErrorProgram, ErrorInFunctionProgram,
      << ES(Prefix("!", Lit(5))), ES(Prefix("-", Bool(TRUE))) >>,
      << ES(Prefix("-", Lit(5))),
         ES(IfElse(Infix(Lit(1), ">", Lit(2)), <<ES(Lit(10))>>, <<ES(Lit(20))>>)) >>,
      << ES(If(Bool(FALSE), <<ES(Lit(10))>>)) >>,
      << ES(If(Bool(TRUE), <<>>)) >>,
      << ES(Call(Lit(5), <<Lit(1)>>)) >>,
      << Return(NoNode) >>,
      << ES(Infix(Lit(1), "<", Lit(2))), ES(Infix(Bool(TRUE), "==", Bool(TRUE))),
         ES(Infix(Lit(6), "/", Lit(4))) >> }

Programs == Generated \cup Scenarios

(* --------------------- the infix operators, alone ---------------------- *)

Operators == {"+", "-", "*", "/", "<", ">", "==", "!=", "&&"}

Integers_ == { Integer(n) : n \in -MaxInt..MaxInt }

\* the values an operand can be: eval hands no Error to eval_infix_expression
Operands ==
    Integers_ \cup
    { TRUE_, FALSE_, NULL,
      ReturnValue(Integer(1), 1), ReturnValue(Integer(1), 2),
      Function(<<>>, Block(<<ES(Lit(1))>>), Global, 3),
      Function(<<>>, Block(<<ES(Lit(1))>>), Global, 4) }

ApplyInfix ==
    /\ pc = "infix"
    /\ applied' = eval_infix_expression(op, left, right)
    /\ pc' = "eval_infix_expression"
    /\ UNCHANGED <<program, i, result, heap, log, oid, output, op, left, right>>

ApplyIntegerInfix ==
    /\ pc = "infix"
    /\ left.type = INTEGER_OBJ /\ right.type = INTEGER_OBJ
    /\ applied' = eval_integer_infix_expression(op, left, right)
    /\ pc' = "eval_integer_infix_expression"
    /\ UNCHANGED <<program, i, result, heap, log, oid, output, op, left, right>>

(* -------------------------- the specifications ------------------------- *)

Init ==
    /\ program \in Programs
    /\ pc = "loop"
    /\ i = 1
    /\ result = Unbound
    /\ heap = <<Environment(NoEnv)>>
    /\ log = <<>>
    /\ oid = 1
    /\ output = Unbound
    /\ op = "" /\ left = None /\ right = None /\ applied = Unbound

Next ==
    \/ StatementRaises
    \/ StatementReturns
    \/ StatementFails
    \/ StatementCompletes
    \/ ProgramEnds

Spec == Init /\ [][Next]_vars

InitInfix ==
    /\ program = <<>>
    /\ pc = "infix"
    /\ i = 1
    /\ result = Unbound
    /\ heap = <<Environment(NoEnv)>>
    /\ log = <<>>
    /\ oid = 1
    /\ output = Unbound
    /\ op \in Operators
    /\ left \in Operands
    /\ right \in Operands
    /\ applied = Unbound

NextInfix == ApplyInfix \/ ApplyIntegerInfix

SpecInfix == InitInfix /\ [][NextInfix]_vars

(* ------------------------------ the claims ----------------------------- *)

\* the positions of the history
Events == 1..Len(log)

\* the call that is running at position k of the history: the latest apply
\* before k whose applyret has not come yet (0 when no call is running)
RunningCalls(k) ==
    { j \in 1..(k - 1) :
        /\ log[j].ev = "apply"
        /\ \A r \in (j + 1)..(k - 1) : ~(log[r].ev = "applyret" /\ log[r].env = log[j].env) }

InnermostCall(k) ==
    IF RunningCalls(k) = {} THEN 0
    ELSE CHOOSE j \in RunningCalls(k) : \A j2 \in RunningCalls(k) : j2 <= j

\* the bindings the first n events made in environment e
RECURSIVE BindingsMade(_, _)
BindingsMade(e, n) ==
    IF n = 0 THEN <<>>
    ELSE LET b == BindingsMade(e, n - 1)
         IN  IF log[n].ev = "set" /\ log[n].env = e
             THEN [x \in (DOMAIN b) \cup {log[n].name} |->
                      IF x = log[n].name THEN log[n].val ELSE b[x]]
             ELSE b

\* where eval_program last entered a statement
LastStatementEntered ==
    CHOOSE k \in Events :
        /\ log[k].ev = "enter" /\ log[k].ctx = "eval_program"
        /\ \A j \in Events : (log[j].ev = "enter" /\ log[j].ctx = "eval_program") => j <= k

\* C1: a ReturnValue that a statement of the program yields ends the
\* program with the wrapped value, and nothing is evaluated after it; a
\* ReturnValue that a statement of a block yields is handed up unchanged
\* (block, if-expression, expression statement) with nothing evaluated in
\* between.
C1_ReturnTerminates ==
    \A k \in Events :
        (log[k].ev = "ret" /\ log[k].val.type = RETURN_VALUE_OBJ) =>
            /\ log[k].ctx = "eval_program" =>
                  /\ k = Len(log)
                  /\ pc = "done"
                  /\ output = log[k].val.value
            /\ ( \/ log[k].ctx = "eval_block_statement"
                 \/ log[k].ctx = "ExpressionStatement"
                 \/ (log[k].ctx = "eval_if_expression" /\ log[k].node.kind = "BlockStatement") ) =>
                  /\ k < Len(log)
                  /\ log[k + 1].ev = "ret"
                  /\ log[k + 1].val = log[k].val

\* a return two if-blocks deep ended the program before its later let ran
C1_Witness ==
    /\ program = NestedReturnProgram
    /\ pc = "done"
    /\ output = Integer(10)
    /\ i = 2
    /\ "a" \notin DOMAIN heap[Global].store

\* C2: an Error that a statement of the program yields is the program's
\* result, unchanged; nothing is evaluated after it, and the environment
\* holds exactly the bindings made before the failing statement.
C2_ErrorHalts ==
    \A k \in Events :
        (log[k].ev = "ret" /\ log[k].ctx = "eval_program" /\ log[k].val.type = ERROR_OBJ) =>
            /\ k = Len(log)
            /\ pc = "done"
            /\ output = log[k].val
            /\ heap[Global].store = BindingsMade(Global, LastStatementEntered)

\* 5 + true failed after let a = 1 and before let b = 2
C2_Witness ==
    /\ program = ErrorProgram
    /\ pc = "done"
    /\ output = Error("type mismatch: INTEGER + BOOLEAN")
    /\ DOMAIN heap[Global].store = {"a"}

\* C3: neither eval on the Program node nor apply_function returns a
\* ReturnValue.
C3_ReturnValueNeverEscapes ==
    /\ pc = "done" => output.type # RETURN_VALUE_OBJ
    /\ \A k \in Events : log[k].ev = "applyret" => log[k].val.type # RETURN_VALUE_OBJ

\* C4 as stated: operands of differing types give the type mismatch Error,
\* whatever the operator.
C4_TypeMismatchEveryOperator ==
    (pc = "eval_infix_expression" /\ left.type # right.type) =>
        applied = Error("type mismatch: " \o left.type \o " " \o op \o " " \o right.type)

\* C4, amended: operands of differing types give the type mismatch Error for
\* every operator other than == and !=.
C4_TypeMismatch ==
    (pc = "eval_infix_expression" /\ left.type # right.type /\ op \notin {"==", "!="}) =>
        applied = Error("type mismatch: " \o left.type \o " " \o op \o " " \o right.type)

C4_Witness ==
    /\ pc = "eval_infix_expression"
    /\ op = "<" /\ left = Integer(1) /\ right = TRUE_
    /\ applied = Error("type mismatch: INTEGER < BOOLEAN")

\* C5: when an argument of a call evaluates to an Error, the call
\* expression returns that Error.
C5_ArgumentErrorIsTheResult ==
    \A k \in Events :
        (log[k].ev = "ret" /\ log[k].ctx = "eval_expressions" /\ log[k].val.type = ERROR_OBJ) =>
            /\ k < Len(log)
            /\ log[k + 1].ev = "ret"
            /\ log[k + 1].node.kind = "CallExpression"
            /\ log[k + 1].val = log[k].val

\* C6: applying a Function to a number of arguments other than the number
\* of its parameters returns an Error, with no parameter bound and the body
\* not evaluated.
C6_ArityMismatchIsAnError ==
    \A k \in Events :
        (/\ log[k].ev = "apply"
         /\ log[k].fn.type = FUNCTION_OBJ
         /\ Len(log[k].args) # Len(log[k].fn.parameters)) =>
            /\ k < Len(log)
            /\ log[k + 1].ev = "applyret"
            /\ log[k + 1].val.type = ERROR_OBJ

\* C7: a function literal captures the environment it is evaluated in; a
\* call evaluates the body in a new environment whose parent is the captured
\* one, so the closures of two calls of newAdder each add their own x, and g
\* called from h reads the global x, not h's.
C7_LexicalClosure ==
    \A k \in Events :
        /\ (log[k].ev = "ret" /\ log[k].node.kind = "FunctionLiteral") =>
              log[k].val.env = log[k].env
        /\ (log[k].ev = "enter" /\ log[k].ctx = "apply_function") =>
              /\ InnermostCall(k) # 0
              /\ log[k].env = log[InnermostCall(k)].env
              /\ log[k].node = log[InnermostCall(k)].fn.body
              /\ heap[log[k].env].outer = log[InnermostCall(k)].fn.env
        /\ (log[k].ev = "ret" /\ log[k].node = AddTwoOfX) => log[k].val = Integer(12)
        /\ (log[k].ev = "ret" /\ log[k].node = AddThreeOfOne) => log[k].val = Integer(4)
        /\ (log[k].ev = "ret" /\ log[k].node = CallOfH) => log[k].val = Integer(10)

\* both closures were applied after newAdder had returned twice
C7_Witness ==
    /\ program = ClosureProgram
    /\ pc = "done"
    /\ output = Integer(4)
    /\ \E k \in Events : log[k].ev = "ret" /\ log[k].node = AddTwoOfX /\ log[k].val = Integer(12)

\* C8: while a call is running, every binding goes into the environment
\* made for the innermost running call; when a call returns, every
\* environment that existed before it is as it was.
C8_BindingsStayInTheCall ==
    \A k \in Events :
        /\ (log[k].ev = "set" /\ InnermostCall(k) # 0) =>
              log[k].env = log[InnermostCall(k)].env
        /\ log[k].ev = "applyret" =>
              \A e \in 1..Len(log[k].before) : log[k].after[e] = log[k].before[e]

\* f(2) bound its parameter x to 2 while the global x stayed 1
C8_Witness ==
    /\ program = ShadowProgram
    /\ pc = "done"
    /\ output = Integer(1)
    /\ \E k \in Events :
          /\ log[k].ev = "applyret"
          /\ log[k].after[log[k].env].store["x"] = Integer(2)
          /\ log[k].after[Global].store["x"] = Integer(1)

\* C9: after a let statement of a block has bound its name, the block goes
\* on: it enters the next statement or returns.
C9_LetInBlockGoesOn ==
    \A k \in Events :
        (/\ log[k].ev = "ret"
         /\ log[k].ctx = "eval_block_statement"
         /\ log[k].node.kind = "LetStatement"
         /\ log[k].val = None) =>
            /\ k < Len(log)
            /\ log[k + 1].ev \in {"enter", "ret"}

\* C10: on two Integers eval_integer_infix_expression returns a value for
\* every operator: an Integer for + - * /, TRUE or FALSE for < > == !=, the
\* unknown operator Error otherwise.
C10_IntegerInfixTotal ==
    pc = "eval_integer_infix_expression" =>
        /\ ~IsRaise(applied)
        /\ op \in {"+", "-", "*", "/"} => applied.type = INTEGER_OBJ
        /\ op \in {"<", ">", "==", "!="} => applied \in {TRUE_, FALSE_}
        /\ op \notin {"+", "-", "*", "/", "<", ">", "==", "!="} =>
              applied = Error("unknown operator: INTEGER " \o op \o " INTEGER")

====
